---- MODULE Spec2Model ----
(***************************************************************************)
(* Model of smile's KeyPress state (src/smile/keyboard.py): one KeyPress   *)
(* object per element of States, the application's KEY_DOWN callback list, *)
(* the clock, and the host that enters, polls, leaves the states and       *)
(* delivers key events.                                                    *)
(*                                                                         *)
(* Python's None is the empty sequence and a present value v is <<v>>, so  *)
(* that "x is None" is x = None for values of every type.                  *)
(***************************************************************************)
EXTENDS Integers, Sequences, FiniteSets, TLC

VARIABLES
    kp,          \* kp[s]: the attributes of KeyPress object s
    callbacks,   \* the application's list of KEY_DOWN callbacks
    exc,         \* the exception a callback raised, if any
    now,         \* the clock
    event,       \* the KEY_DOWN event the last step dispatched, if it was a dispatch
    entered      \* the state the last step entered and the key its previous
                 \* activation had recorded, if the last step was an entry

vars == <<kp, callbacks, exc, now, event, entered>>

\* ------------------------------------------------------------------ bounds

\* The clock runs from 0 to MaxTime.
MaxTime == 2
\* Fixed durations given to the constructor are 1..MaxDuration.
MaxDuration == 2
\* Externally supplied base_time values are 0..MaxBase.
MaxBase == 1
\* A key event's timestamp is at most MaxLag behind the clock at delivery.
MaxLag == 1

\* ------------------------------------------------------------------ values

None == <<>>
Some(x) == <<x>>

\* A constructor argument that is a list, and one that is not.
List(xs) == [list |-> TRUE, v |-> xs]
Scalar(x) == [list |-> FALSE, v |-> x]

\* isinstance(arg, list)
isinstance_list(arg) == arg.list

\* x in xs, for a Python list xs
In(x, xs) == \E i \in DOMAIN xs : xs[i] = x

\* Python truth value of an optional number: None and 0 are false.
Truthy(x) == x # None /\ x[1] # 0

\* val() of a value that is not a Ref is the value itself.
val(x) == x

\* str.upper() on the key names the host delivers.
upper(str) ==
    CASE str = "j" -> "J"
      [] str = "k" -> "K"
      [] str = "q" -> "Q"
      [] OTHER -> str

\* The KeyPress objects of the experiment: kpA is built from any of the
\* constructor arguments below, kpB is KeyPress(keys=['J','K'], correct_resp='K').
States == {"kpA", "kpB"}

\* keycode tuples (code, name) of the KEY_DOWN events the host delivers.
KeyCodes == {<<106, "j">>, <<107, "K">>, <<113, "q">>}

\* event_time dictionaries of the events delivered when the clock reads t.
EventTimes(t) == {[time |-> e] : e \in {x \in 0..t : t - x <= MaxLag}}

\* clock.now()
clock_now == now

\* ------------------------------------------------------------ the registry

\* app.add_callback("KEY_DOWN", f)
app_add_callback(w, f) == [w EXCEPT !.callbacks = Append(@, f)]

\* app.remove_callback("KEY_DOWN", f): the first registration of f, if any.
app_remove_callback(w, f) ==
    LET cbs == w.callbacks
    IN  IF In(f, cbs)
        THEN LET i == CHOOSE i \in DOMAIN cbs :
                        cbs[i] = f /\ \A j \in 1..(i - 1) : cbs[j] # f
             IN  [w EXCEPT !.callbacks =
                      SubSeq(cbs, 1, i - 1) \o SubSeq(cbs, i + 1, Len(cbs))]
        ELSE w

Registered(s) == In(s, callbacks)

\* An exception raised inside a callback, kept for the root context.
Raise(w, name) == [w EXCEPT !.exc = Some(name)]

\* ---------------------------------------------------------------- KeyPress

\* KeyPress.__init__
KeyPress_init(keys, correct_resp, base_time, until, duration) ==
    [ keys          |-> IF ~isinstance_list(keys) THEN <<keys.v>> ELSE keys.v,
      correct_resp  |-> IF ~isinstance_list(correct_resp)
                        THEN <<correct_resp.v>> ELSE correct_resp.v,
      base_time_src |-> base_time,
      base_time     |-> None,
      wait_duration |-> IF duration = -1 THEN None ELSE Some(duration),
      wait_until    |-> until,
      pressed       |-> "",
      press_time    |-> None,
      correct       |-> FALSE,
      rt            |-> None,
      waiting       |-> FALSE,
      \* State.__init__
      active        |-> FALSE,
      state_time    |-> None,
      start_time    |-> None ]

\* _enter as it would be if it reset the reference point only.
KeyPress_enter_keeps_response(w, s) ==
    [w EXCEPT !.kp[s].base_time = None]

\* _enter as it would be without the reset of rt (line 112).
KeyPress_enter_keeps_rt(w, s) ==
    [w EXCEPT !.kp[s].pressed = "",
              !.kp[s].press_time = None,
              !.kp[s].correct = FALSE,
              !.kp[s].base_time = None]

\* KeyPress._enter
KeyPress_enter(w, s) ==
    [w EXCEPT !.kp[s].pressed = "",
              !.kp[s].press_time = None,
              !.kp[s].correct = FALSE,
              !.kp[s].rt = None,
              !.kp[s].base_time = None]

\* _leave as it would be if it emptied the KEY_DOWN list instead of removing
\* its own callback.
KeyPress_leave_clears_callbacks(w, s) ==
    [w EXCEPT !.callbacks = <<>>, !.kp[s].waiting = FALSE]

\* _leave as it would be without the remove_callback call.
KeyPress_leave_keeps_callback(w, s) ==
    [w EXCEPT !.kp[s].waiting = FALSE]

\* _leave as it would be if it also put the response attributes back to
\* their defaults, as _enter does.
KeyPress_leave_resets_response(w, s) ==
    [app_remove_callback(w, s) EXCEPT !.kp[s].waiting = FALSE,
                                      !.kp[s].pressed = "",
                                      !.kp[s].press_time = None,
                                      !.kp[s].correct = FALSE,
                                      !.kp[s].rt = None]

\* _leave as it would be without the reset of the waiting flag (line 164).
KeyPress_leave_keeps_waiting(w, s) ==
    app_remove_callback(w, s)

\* KeyPress._leave
KeyPress_leave(w, s) ==
    [app_remove_callback(w, s) EXCEPT !.kp[s].waiting = FALSE]

\* State.enter: the parent starts an activation.
State_enter(w, s) ==
    KeyPress_enter([w EXCEPT !.kp[s].active = TRUE,
                             !.kp[s].state_time = Some(clock_now),
                             !.kp[s].start_time = Some(clock_now)], s)

\* State.leave: a no-op on a state that is not active.
State_leave(w, s) ==
    IF ~w.kp[s].active
    THEN w
    ELSE [KeyPress_leave(w, s) EXCEPT !.kp[s].active = FALSE]

\* _key_callback as it would be if rt were measured from the state's own
\* time (the commented-out lines 127-131) rather than from base_time.
KeyPress_key_callback_rt_from_state_time(w, s, keycode, event_time) ==
    LET self == w.kp[s]
        keys == val(self.keys)
        correct_resp == val(self.correct_resp)
        sym_str == upper(keycode[2])
    IN  IF In(None, keys) \/ In(Some(sym_str), keys)
        THEN State_leave(
               [w EXCEPT !.kp[s].pressed = sym_str,
                         !.kp[s].press_time = Some(event_time),
                         !.kp[s].rt = Some(event_time.time - self.state_time[1]),
                         !.kp[s].correct = IF In(Some(sym_str), correct_resp)
                                           THEN TRUE ELSE @], s)
        ELSE w

\* _key_callback as it would be without its closing self.leave().
KeyPress_key_callback_no_leave(w, s, keycode, event_time) ==
    LET self == w.kp[s]
        keys == val(self.keys)
        correct_resp == val(self.correct_resp)
        sym_str == upper(keycode[2])
    IN  IF In(None, keys) \/ In(Some(sym_str), keys)
        THEN LET w1 == [w EXCEPT !.kp[s].pressed = sym_str,
                                 !.kp[s].press_time = Some(event_time)]
             IN  IF self.base_time = None
                 THEN Raise(w1, "TypeError")
                 ELSE [w1 EXCEPT !.kp[s].rt =
                                     Some(event_time.time - self.base_time[1]),
                                 !.kp[s].correct =
                                     IF In(Some(sym_str), correct_resp)
                                     THEN TRUE ELSE @]
        ELSE w

\* _key_callback as it would be without the test of line 122.
KeyPress_key_callback_any_key(w, s, keycode, event_time) ==
    LET self == w.kp[s]
        correct_resp == val(self.correct_resp)
        sym_str == upper(keycode[2])
        w1 == [w EXCEPT !.kp[s].pressed = sym_str,
                        !.kp[s].press_time = Some(event_time)]
    IN  IF self.base_time = None
        THEN Raise(w1, "TypeError")
        ELSE State_leave(
               [w1 EXCEPT !.kp[s].rt = Some(event_time.time - self.base_time[1]),
                          !.kp[s].correct = IF In(Some(sym_str), correct_resp)
                                            THEN TRUE ELSE @], s)

\* KeyPress._key_callback
KeyPress_key_callback(w, s, keycode, event_time) ==
    LET self == w.kp[s]
        keys == val(self.keys)
        correct_resp == val(self.correct_resp)
        sym_str == upper(keycode[2])
    IN  IF In(None, keys) \/ In(Some(sym_str), keys)
        THEN LET w1 == [w EXCEPT !.kp[s].pressed = sym_str,
                                 !.kp[s].press_time = Some(event_time)]
             IN  IF self.base_time = None
                 THEN Raise(w1, "TypeError")
                 ELSE State_leave(
                        [w1 EXCEPT !.kp[s].rt =
                                       Some(event_time.time - self.base_time[1]),
                                   !.kp[s].correct =
                                       IF In(Some(sym_str), correct_resp)
                                       THEN TRUE ELSE @], s)
        ELSE w

\* _callback as it would be without the waiting test of line 144: the
\* callback is added on every tick.
KeyPress_callback_adds_every_tick(w, s) ==
    LET w1 == [app_add_callback(w, s) EXCEPT !.kp[s].waiting = TRUE]
        w2 == IF w1.kp[s].base_time = None
              THEN [w1 EXCEPT !.kp[s].base_time =
                       IF val(w1.kp[s].base_time_src) = None
                       THEN w1.kp[s].state_time
                       ELSE val(w1.kp[s].base_time_src)]
              ELSE w1
        wait_duration == val(w2.kp[s].wait_duration)
    IN  IF wait_duration # None
           /\ clock_now >= w2.kp[s].base_time[1] + wait_duration[1]
        THEN State_leave(w2, s)
        ELSE IF Truthy(val(w2.kp[s].wait_until))
        THEN State_leave(w2, s)
        ELSE w2

\* _callback as it would be without the fallback of lines 150-152.
KeyPress_callback_no_default_base(w, s) ==
    LET w1 == IF ~w.kp[s].waiting
              THEN [app_add_callback(w, s) EXCEPT !.kp[s].waiting = TRUE]
              ELSE w
        w2 == IF w1.kp[s].base_time = None
              THEN [w1 EXCEPT !.kp[s].base_time = val(w1.kp[s].base_time_src)]
              ELSE w1
        wait_duration == val(w2.kp[s].wait_duration)
    IN  IF wait_duration # None /\ w2.kp[s].base_time = None
        THEN Raise(w2, "TypeError")
        ELSE IF wait_duration # None
                /\ clock_now >= w2.kp[s].base_time[1] + wait_duration[1]
        THEN State_leave(w2, s)
        ELSE IF Truthy(val(w2.kp[s].wait_until))
        THEN State_leave(w2, s)
        ELSE w2

\* _callback as it would be if the default reference point were the clock at
\* the first tick instead of the state's own time.
KeyPress_callback_base_from_clock(w, s) ==
    LET w1 == IF ~w.kp[s].waiting
              THEN [app_add_callback(w, s) EXCEPT !.kp[s].waiting = TRUE]
              ELSE w
        w2 == IF w1.kp[s].base_time = None
              THEN [w1 EXCEPT !.kp[s].base_time =
                       IF val(w1.kp[s].base_time_src) = None
                       THEN Some(clock_now)
                       ELSE val(w1.kp[s].base_time_src)]
              ELSE w1
        wait_duration == val(w2.kp[s].wait_duration)
    IN  IF wait_duration # None
           /\ clock_now >= w2.kp[s].base_time[1] + wait_duration[1]
        THEN State_leave(w2, s)
        ELSE IF Truthy(val(w2.kp[s].wait_until))
        THEN State_leave(w2, s)
        ELSE w2

\* _callback as it would be if a missing duration counted as 0.
KeyPress_callback_none_is_zero(w, s) ==
    LET w1 == IF ~w.kp[s].waiting
              THEN [app_add_callback(w, s) EXCEPT !.kp[s].waiting = TRUE]
              ELSE w
        w2 == IF w1.kp[s].base_time = None
              THEN [w1 EXCEPT !.kp[s].base_time =
                       IF val(w1.kp[s].base_time_src) = None
                       THEN w1.kp[s].state_time
                       ELSE val(w1.kp[s].base_time_src)]
              ELSE w1
        wait_duration == IF val(w2.kp[s].wait_duration) = None
                         THEN Some(0) ELSE val(w2.kp[s].wait_duration)
    IN  IF clock_now >= w2.kp[s].base_time[1] + wait_duration[1]
        THEN State_leave(w2, s)
        ELSE IF Truthy(val(w2.kp[s].wait_until))
        THEN State_leave(w2, s)
        ELSE w2

\* KeyPress._callback
KeyPress_callback(w, s) ==
    LET w1 == IF ~w.kp[s].waiting
              THEN [app_add_callback(w, s) EXCEPT !.kp[s].waiting = TRUE]
              ELSE w
        w2 == IF w1.kp[s].base_time = None
              THEN [w1 EXCEPT !.kp[s].base_time =
                       IF val(w1.kp[s].base_time_src) = None
                       THEN w1.kp[s].state_time
                       ELSE val(w1.kp[s].base_time_src)]
              ELSE w1
        wait_duration == val(w2.kp[s].wait_duration)
    IN  IF wait_duration # None /\ w2.kp[s].base_time = None
        THEN Raise(w2, "TypeError")
        ELSE IF wait_duration # None
                /\ clock_now >= w2.kp[s].base_time[1] + wait_duration[1]
        THEN State_leave(w2, s)
        ELSE IF Truthy(val(w2.kp[s].wait_until))
        THEN State_leave(w2, s)
        ELSE w2

\* The dispatch as it would be if it walked the live callback list by index
\* while callbacks remove themselves from it.
RECURSIVE trigger_live(_, _, _, _)
trigger_live(i, w, keycode, event_time) ==
    IF i > Len(w.callbacks)
    THEN w
    ELSE trigger_live(i + 1,
                      KeyPress_key_callback(w, w.callbacks[i], keycode, event_time),
                      keycode, event_time)

trigger_callback_live_list(snapshot, w, keycode, event_time) ==
    trigger_live(1, w, keycode, event_time)

\* The dispatcher hands one KEY_DOWN event to the callbacks registered when
\* the dispatch began, in registration order.
RECURSIVE trigger_callback(_, _, _, _)
trigger_callback(snapshot, w, keycode, event_time) ==
    IF snapshot = <<>>
    THEN w
    ELSE trigger_callback(Tail(snapshot),
                          KeyPress_key_callback(w, Head(snapshot), keycode, event_time),
                          keycode, event_time)

\* ----------------------------------------------------------------- actions

World == [kp |-> kp, callbacks |-> callbacks, exc |-> exc]

Commit(w) == /\ kp' = w.kp
             /\ callbacks' = w.callbacks
             /\ exc' = w.exc

KeysArgs == {Scalar(None), List(<<Some("J"), Some("K")>>)}
CorrectArgs == {Scalar(None), Scalar(Some("K"))}
BaseTimeArgs == {None} \cup {Some(b) : b \in 0..MaxBase}
UntilArgs == {None, Some(MaxTime)}
DurationArgs == {-1} \cup 1..MaxDuration

Init ==
    /\ \E keys \in KeysArgs, correct_resp \in CorrectArgs,
          base_time \in BaseTimeArgs, until \in UntilArgs,
          duration \in DurationArgs :
          kp = [s \in States |->
                  IF s = "kpA"
                  THEN KeyPress_init(keys, correct_resp, base_time, until, duration)
                  ELSE KeyPress_init(List(<<Some("J"), Some("K")>>),
                                     Scalar(Some("K")), None, None, -1)]
    /\ callbacks = <<>>
    /\ exc = None
    /\ now = 0
    /\ event = None
    /\ entered = None

\* The parent enters a state that is not running.
Enter(s) ==
    /\ exc = None
    /\ ~kp[s].active
    /\ Commit(State_enter(World, s))
    /\ event' = None
    /\ entered' = Some([state |-> s, pressed |-> kp[s].pressed])
    /\ UNCHANGED now

\* One poll tick of an active state.
Poll(s) ==
    /\ exc = None
    /\ kp[s].active
    /\ Commit(KeyPress_callback(World, s))
    /\ entered' = None
    /\ event' = None
    /\ UNCHANGED now

\* The host delivers one KEY_DOWN event.
KeyDown(keycode, event_time) ==
    /\ exc = None
    /\ Commit(trigger_callback(callbacks, World, keycode, event_time))
    /\ entered' = None
    /\ event' = Some(<<keycode, event_time>>)
    /\ UNCHANGED now

\* The parent (or anyone) calls leave() on a state.
Leave(s) ==
    /\ exc = None
    /\ Commit(State_leave(World, s))
    /\ entered' = None
    /\ event' = None
    /\ UNCHANGED now

\* The clock advances.
Advance ==
    /\ now < MaxTime
    /\ now' = now + 1
    /\ entered' = None
    /\ event' = None
    /\ UNCHANGED <<kp, callbacks, exc>>

Next ==
    \/ \E s \in States : Enter(s)
    \/ \E s \in States : Poll(s)
    \/ \E keycode \in KeyCodes : \E event_time \in EventTimes(now) :
           KeyDown(keycode, event_time)
    \/ \E s \in States : Leave(s)
    \/ Advance

Spec == Init /\ [][Next]_vars

\* ------------------------------------------------------------------ claims

\* The response attributes of a KeyPress, and their no-response defaults.
Resp(self) == <<self.pressed, self.press_time, self.rt, self.correct>>
NoResponse == <<"", None, None, FALSE>>

\* keycode's upper-cased name is in self's accepted set, or the set is unbounded.
Accepts(self, keycode) ==
    In(None, self.keys) \/ In(Some(upper(keycode[2])), self.keys)

\* A state that has been entered and has left.
Finished(self) == ~self.active /\ self.start_time # None

\* C1: every key event dispatched to an active, subscribed KeyPress that
\* accepts the key records pressed = the upper-cased key, press_time = the
\* event's timestamp, rt = event time - base_time, and correct = (key is in
\* correct_resp).
C1_AcceptedKeyRecorded ==
    [][event' # None =>
         LET keycode == event'[1][1]
             event_time == event'[1][2]
         IN  \A s \in States :
               (Registered(s) /\ kp[s].active /\ Accepts(kp[s], keycode)) =>
                  /\ kp'[s].pressed = upper(keycode[2])
                  /\ kp'[s].press_time = Some(event_time)
                  /\ kp'[s].rt = Some(event_time.time - kp[s].base_time[1])
                  /\ kp'[s].correct
                        = In(Some(upper(keycode[2])), kp[s].correct_resp)]_vars

\* C1 witness: a key has just been dispatched and recorded as a correct
\* response with a positive rt against an externally supplied base_time.
C1_Witness ==
    /\ event # None
    /\ \E s \in States :
         /\ kp[s].pressed = upper(event[1][1][2])
         /\ kp[s].press_time = Some(event[1][2])
         /\ kp[s].correct
         /\ kp[s].base_time_src # None
         /\ kp[s].rt # None
         /\ kp[s].rt[1] > 0

\* C2: the first accepted key event ends the activation and removes the
\* callback in the same step, and a key event dispatched once a response is
\* recorded leaves pressed, press_time, rt and correct as they are.
C2_SingleAcceptance ==
    [][event' # None =>
         \A s \in States :
            /\ (Registered(s) /\ kp[s].active /\ Accepts(kp[s], event'[1][1])) =>
                  (~kp'[s].active /\ ~In(s, callbacks') /\ ~kp'[s].waiting)
            /\ kp[s].pressed # "" => Resp(kp'[s]) = Resp(kp[s])]_vars

\* C2 witness: after J was recorded, a K event (which the state accepts while
\* subscribed) has been dispatched and the record still says J.
C2_Witness ==
    /\ event # None
    /\ upper(event[1][1][2]) = "K"
    /\ \E s \in States :
         /\ Finished(kp[s])
         /\ kp[s].pressed = "J"
         /\ Accepts(kp[s], event[1][1])
         /\ ~Registered(s)

\* C3: a key event whose key is not in a bounded accepted set changes nothing
\* of the subscribed state: the response attributes keep their values and the
\* state is still active, waiting and registered.
C3_OtherKeyIgnored ==
    [][event' # None =>
         \A s \in States :
            (Registered(s) /\ kp[s].active /\ ~Accepts(kp[s], event'[1][1])) =>
               (kp'[s] = kp[s] /\ In(s, callbacks'))]_vars

\* C3 witness: Q has just been dispatched to an active, subscribed state that
\* accepts J and K only, and the state has no response.
C3_Witness ==
    /\ event # None
    /\ upper(event[1][1][2]) = "Q"
    /\ \E s \in States :
         /\ Registered(s)
         /\ kp[s].active
         /\ kp[s].waiting
         /\ ~Accepts(kp[s], event[1][1])
         /\ Resp(kp[s]) = NoResponse

\* C4: a poll tick that ends the activation on the duration/until bound
\* leaves every response attribute at its no-response default.
C4_TimeoutKeepsDefaults ==
    [][\A s \in States :
         (Poll(s) /\ kp[s].active /\ ~kp'[s].active) =>
            Resp(kp'[s]) = NoResponse]_vars

\* C4 witness: a state with a duration bound has left with the bound elapsed
\* and no response.  kpA is the state that is given a duration.
C4_Witness ==
    \E s \in States :
       /\ Finished(kp[s])
       /\ kp[s].wait_duration # None
       /\ kp[s].base_time # None
       /\ now >= kp[s].base_time[1] + kp[s].wait_duration[1]
       /\ Resp(kp[s]) = NoResponse

\* C5 (as claimed): a poll tick of a KeyPress with a fixed duration d and no
\* until value ends the activation exactly when now >= start_time + d,
\* whatever base_time is.
C5_DurationFromStartTime ==
    [][\A s \in States :
         (/\ Poll(s)
          /\ kp[s].active
          /\ kp[s].wait_duration # None
          /\ kp[s].wait_until = None) =>
            (~kp'[s].active
               <=> now >= kp[s].start_time[1] + kp[s].wait_duration[1])]_vars

\* What lines 153-156 do instead: the bound is counted from base_time.
C5_DurationFromBaseTime ==
    [][\A s \in States :
         (/\ Poll(s)
          /\ kp[s].active
          /\ kp[s].wait_duration # None
          /\ kp[s].wait_until = None) =>
            (~kp'[s].active
               <=> now >= kp'[s].base_time[1] + kp[s].wait_duration[1])]_vars

\* C6 (as claimed): a poll tick of a KeyPress with an until deadline u and no
\* duration ends the activation exactly when now >= u.
C6_UntilDeadline ==
    [][\A s \in States :
         (/\ Poll(s)
          /\ kp[s].active
          /\ kp[s].wait_duration = None
          /\ kp[s].wait_until # None) =>
            (~kp'[s].active <=> now >= kp[s].wait_until[1])]_vars

\* C7: the KEY_DOWN callback of a KeyPress is registered only while the
\* KeyPress is active (and waiting): every exit has removed it.
C7_RegisteredOnlyWhileActive ==
    \A s \in States : Registered(s) => (kp[s].active /\ kp[s].waiting)

\* C7 witness: a state that was subscribed (it was polled) has left, and a
\* key it accepts has just been dispatched while it is not registered.
C7_Witness ==
    /\ event # None
    /\ \E s \in States :
         /\ Finished(kp[s])
         /\ kp[s].base_time # None
         /\ ~Registered(s)
         /\ Accepts(kp[s], event[1][1])

C9_BaseTimeSetWhileSubscribed ==
    /\ exc = None
    /\ \A s \in States :
         /\ Registered(s) => kp[s].base_time # None
         /\ kp[s].rt # None =>
               /\ kp[s].base_time # None
               /\ kp[s].press_time # None
               /\ kp[s].rt[1] = kp[s].press_time[1].time - kp[s].base_time[1]

\* C9 witness: a key dispatched at the clock value of the state's entry was
\* recorded against the defaulted base_time.
C9_Witness ==
    /\ event # None
    /\ \E s \in States :
         /\ kp[s].base_time_src = None
         /\ kp[s].rt # None
         /\ kp[s].press_time = Some(event[1][2])
         /\ kp[s].start_time = Some(now)

\* C10: an activation ends once.  A step that ends it through a key dispatch
\* records a response and a step that ends it otherwise (the bound, a forced
\* leave) records none; and while the state stays finished no poll tick and
\* no key event changes any of its attributes or its registration.
C10_FirstExitWins ==
    [][\A s \in States :
         /\ (kp[s].active /\ ~kp'[s].active) =>
               ((event' # None) <=> (kp'[s].pressed # ""))
         /\ (~kp[s].active /\ ~kp'[s].active) =>
               (kp'[s] = kp[s] /\ (In(s, callbacks') <=> In(s, callbacks)))]_vars

\* C10 witness: a state with a bounded key set and a duration left with no
\* response, its bound has elapsed, and a key it accepts has just been
\* dispatched.
C10_Witness ==
    /\ event # None
    /\ \E s \in States :
         /\ Finished(kp[s])
         /\ ~In(None, kp[s].keys)
         /\ kp[s].wait_duration # None
         /\ kp[s].base_time # None
         /\ now >= kp[s].base_time[1] + kp[s].wait_duration[1]
         /\ Accepts(kp[s], event[1][1])
         /\ Resp(kp[s]) = NoResponse

\* C11 (as claimed): the reference point is established on entry, so an
\* active state always has a base_time.
C11_BaseTimeSetOnEntry ==
    \A s \in States : kp[s].active => kp[s].base_time # None

\* C11 (amended): entry resets base_time to null; the first poll tick of the
\* activation sets it, to the supplied base_time when one is given and
\* otherwise to the state's own start time; nothing else changes it; and it
\* is set before any key event of the activation is recorded.
C11_BaseTimeSetOnceOnFirstTick ==
    [][\A s \in States :
         /\ kp'[s].base_time # kp[s].base_time =>
               \/ (~kp[s].active /\ kp'[s].active /\ kp'[s].base_time = None)
               \/ /\ Poll(s)
                  /\ kp[s].base_time = None
                  /\ kp'[s].base_time = IF kp[s].base_time_src = None
                                        THEN kp[s].start_time
                                        ELSE kp[s].base_time_src
         /\ (~kp[s].active /\ kp'[s].active) => kp'[s].base_time = None
         /\ (Poll(s) /\ kp[s].active) => kp'[s].base_time # None
         /\ (kp'[s].pressed # kp[s].pressed /\ kp'[s].pressed # "") =>
               kp[s].base_time # None]_vars

\* C11 witness: an active state whose base_time was defaulted to its start
\* time still has that value after the clock has moved on.
C11_Witness ==
    \E s \in States :
       /\ kp[s].active
       /\ kp[s].base_time_src = None
       /\ kp[s].base_time # None
       /\ kp[s].base_time = kp[s].start_time
       /\ now > kp[s].start_time[1]

\* C12: a poll tick of a KeyPress with no duration and no until value never
\* ends the activation: after it the state is active, waiting and registered.
C12_IndefiniteNeverTimesOut ==
    [][\A s \in States :
         (/\ Poll(s)
          /\ kp[s].active
          /\ kp[s].wait_duration = None
          /\ kp[s].wait_until = None) =>
            (kp'[s].active /\ kp'[s].waiting /\ In(s, callbacks'))]_vars

\* C12 witness: a state with no bound is active and subscribed at the last
\* clock value, which is later than its entry.
C12_Witness ==
    \E s \in States :
       /\ kp[s].wait_duration = None
       /\ kp[s].wait_until = None
       /\ kp[s].active
       /\ kp[s].waiting
       /\ Registered(s)
       /\ now = MaxTime
       /\ now > kp[s].start_time[1]

\* The number of registrations of callback f in a callback list.
Count(f, cbs) == Cardinality({i \in DOMAIN cbs : cbs[i] = f})

\* C13: every entry is a fresh activation: whatever the previous activation
\* recorded, after the entry the response attributes and base_time are at
\* their defaults and the state is not subscribed; and the first poll tick of
\* the activation, if the state stays active, registers the callback exactly
\* once.
C13_ReentryIsFresh ==
    [][\A s \in States :
         /\ (~kp[s].active /\ kp'[s].active) =>
               /\ Resp(kp'[s]) = NoResponse
               /\ kp'[s].base_time = None
               /\ ~kp'[s].waiting
               /\ ~In(s, callbacks')
         /\ (Poll(s) /\ kp[s].active /\ ~kp[s].waiting /\ kp'[s].active) =>
               (kp'[s].waiting /\ Count(s, callbacks') = 1)]_vars

\* C13 witness: a state whose previous activation recorded K has just been
\* entered again and shows no response.
C13_Witness ==
    /\ entered # None
    /\ entered[1].pressed = "K"
    /\ kp[entered[1].state].active
    /\ Resp(kp[entered[1].state]) = NoResponse
    /\ kp[entered[1].state].base_time = None
    /\ ~Registered(entered[1].state)

\* C14: leaving keeps the record.  _leave changes nothing but the state's
\* registration and its waiting flag; an exit on the bound or a forced leave
\* keeps pressed, press_time, rt, correct and base_time; an exit on an
\* accepted key ends with the values that key recorded; and while the state
\* stays finished every read of these attributes gives the same values.
C14_ExitKeepsResponse ==
    [][\A s \in States :
         /\ (kp[s].active /\ ~kp'[s].active) =>
               /\ LET w2 == KeyPress_leave(World, s)
                  IN  /\ w2.exc = exc
                      /\ \A r \in States : r # s => w2.kp[r] = kp[r]
                      /\ [w2.kp[s] EXCEPT !.waiting = kp[s].waiting] = kp[s]
               /\ kp'[s].base_time = kp[s].base_time \/ kp[s].base_time = None
               /\ event' = None => Resp(kp'[s]) = Resp(kp[s])
               /\ event' # None =>
                     /\ kp'[s].pressed = upper(event'[1][1][2])
                     /\ kp'[s].press_time = Some(event'[1][2])
                     /\ kp'[s].rt # None
         /\ (~kp[s].active /\ ~kp'[s].active) =>
               /\ Resp(kp'[s]) = Resp(kp[s])
               /\ kp'[s].base_time = kp[s].base_time]_vars

\* C14 witness: a state finished with a recorded response, and the clock has
\* moved on since the key was dispatched.
C14_Witness ==
    \E s \in States :
       /\ Finished(kp[s])
       /\ kp[s].pressed # ""
       /\ kp[s].rt # None
       /\ kp[s].base_time # None
       /\ now > kp[s].press_time[1].time + MaxLag

\* C15: the key callback of a subscribed KeyPress s, run on any key event,
\* changes no attribute of any other state and no registration of any other
\* state's callback, also when s accepts the key and leaves.
C15_CallbackTouchesOwnerOnly ==
    \A s \in States : \A keycode \in KeyCodes : \A event_time \in EventTimes(now) :
       Registered(s) =>
          LET w2 == KeyPress_key_callback(World, s, keycode, event_time)
          IN  \A r \in States :
                 r # s => /\ w2.kp[r] = kp[r]
                          /\ Count(r, w2.callbacks) = Count(r, callbacks)

\* C15 witness: one state has just accepted a dispatched key and left while
\* the other, which does not accept that key, is still active, subscribed
\* and without a response.
C15_Witness ==
    /\ event # None
    /\ \E s \in States, r \in States :
         /\ s # r
         /\ Finished(kp[s])
         /\ kp[s].pressed = upper(event[1][1][2])
         /\ kp[s].press_time = Some(event[1][2])
         /\ kp[r].active
         /\ Registered(r)
         /\ ~Accepts(kp[r], event[1][1])
         /\ Resp(kp[r]) = NoResponse

\* C16: one dispatched KEY_DOWN event reaches every KeyPress that was
\* subscribed when the dispatch began, once: each of them ends the step as
\* its own callback leaves it, whether or not another state accepted the key
\* and unsubscribed itself during the dispatch; and no other state changes.
C16_DispatchReachesEverySubscriber ==
    [][event' # None =>
         \A r \in States :
            kp'[r] = IF Registered(r)
                     THEN KeyPress_key_callback(World, r, event'[1][1],
                                                event'[1][2]).kp[r]
                     ELSE kp[r]]_vars

\* C16 witness: both states were subscribed and both recorded the key that
\* has just been dispatched, each unsubscribing itself in that dispatch.
C16_Witness ==
    /\ event # None
    /\ \A s \in States :
         /\ Finished(kp[s])
         /\ kp[s].pressed = upper(event[1][1][2])
         /\ kp[s].press_time = Some(event[1][2])
         /\ ~Registered(s)

\* C17: the waiting flag of a KeyPress is true exactly when its callback is
\* in the KEY_DOWN list, and the list holds the callback at most once.
C17_WaitingIffRegisteredOnce ==
    \A s \in States :
       /\ kp[s].waiting <=> Registered(s)
       /\ Count(s, callbacks) <= 1

\* C17 witness: both states are waiting at the last clock value, entered
\* earlier, and the list holds each callback once.
C17_Witness ==
    /\ now = MaxTime
    /\ Len(callbacks) = Cardinality(States)
    /\ \A s \in States :
         /\ kp[s].waiting
         /\ Count(s, callbacks) = 1
         /\ now > kp[s].start_time[1]

\* C18: the response attributes are set together or not at all: pressed is
\* empty exactly when press_time is null and exactly when rt is null, and
\* correct implies that pressed is in correct_resp.
C18_ResponseAllOrNothing ==
    \A s \in States :
       /\ (kp[s].pressed = "") <=> (kp[s].press_time = None)
       /\ (kp[s].pressed = "") <=> (kp[s].rt = None)
       /\ kp[s].correct => In(Some(kp[s].pressed), kp[s].correct_resp)

\* C18 witness: a complete record of a wrong key: J was recorded with its
\* time and rt by a state whose correct response is K.
C18_Witness ==
    \E s \in States :
       /\ kp[s].pressed = "J"
       /\ kp[s].press_time # None
       /\ kp[s].rt # None
       /\ ~kp[s].correct
       /\ In(Some("K"), kp[s].correct_resp)

====
